---- MODULE Spec2Model ----
(***************************************************************************)
(* Model of src/src/App.tsx: the calendar breakdown calculator             *)
(* (addMonthsClamped, calculateBreakdown), the overrun percentage          *)
(* calculator (calculateOverrunPercent) and the App component's one-second *)
(* interval (mount, tick, teardown).                                       *)
(*                                                                         *)
(* Representation of time.  A JavaScript Date holds a number of            *)
(* milliseconds since 1970-01-01T00:00:00Z.  Model integers are 32 bits    *)
(* wide, so an instant is the record [s |-> whole seconds since the epoch, *)
(* ms |-> 0..999]; it stands for s*1000 + ms milliseconds.  Every Date     *)
(* setter the program uses (setDate, setMonth, setHours, setMinutes)       *)
(* leaves the seconds and milliseconds fields alone, and                   *)
(* floor(x / (k*1000)) = floor(floor(x / 1000) / k), so every quotient     *)
(* the program computes is computed exactly.                               *)
(*                                                                         *)
(* The Date getters and setters the program calls work on LOCAL time       *)
(* fields, so the host's time zone is part of the environment.  Two zones  *)
(* are modelled: "UTC" (no daylight saving) and "America/Toronto" (the     *)
(* zone of the program's reference dates, -05:00 in winter and -04:00     *)
(* between the second Sunday of March and the first Sunday of November).   *)
(***************************************************************************)
EXTENDS Integers, Sequences, FiniteSets, TLC

VARIABLES
    zone,          \* the host's time zone (environment, fixed for a run)
    startDate,     \* calculator: the startDate argument of calculateBreakdown
    now,           \* calculators: the now argument
    locals,        \* calculator: calculateBreakdown's locals after line 70
    breakdown,     \* calculator: the TimeBreakdown returned for (startDate, now)
    prevNow,       \* calculator: the now of the call before
    prevBreakdown, \* calculator: the TimeBreakdown returned by the call before
    pc,            \* calculators: "input" before the first call, "done" after a call
    breakGround,   \* overrun: the value of BREAK_GROUND_DATE
    projectedOpen, \* overrun: the value of PROJECTED_OPEN_DATE
    overrun,       \* overrun: the value returned by calculateOverrunPercent
    phase,         \* App: "initial", "rendered", "mounted", "unmounted"
    clock,         \* App: the wall clock, read by new Date()
    intervals,     \* App: ids of the window's live intervals
    intervalId,    \* App: the id held by the effect's closure (0: none)
    timerState,    \* App: the component's timerState
    ticks          \* App: interval callbacks run so far

vars == <<zone, startDate, now, locals, breakdown, prevNow, prevBreakdown, pc,
          breakGround, projectedOpen, overrun,
          phase, clock, intervals, intervalId, timerState, ticks>>

calcVars == <<startDate, now, locals, breakdown, prevNow, prevBreakdown>>
overrunVars == <<breakGround, projectedOpen, overrun>>
appVars == <<phase, clock, intervals, intervalId, timerState, ticks>>

-----------------------------------------------------------------------------
(* Arithmetic of the language                                              *)

\* Math.floor(a / b) for b > 0
MathFloorDiv(a, b) == a \div b

\* a % b of JavaScript for b > 0: the remainder has the sign of a
JsRem(a, b) == IF a >= 0 THEN a % b ELSE -((-a) % b)

\* Mutant of Min: Math.max written for Math.min
MinAsMax(a, b) == IF a >= b THEN a ELSE b

Min(a, b) == IF a <= b THEN a ELSE b

secPerMinute == 60
secPerHour == 3600
secPerDay == 86400

-----------------------------------------------------------------------------
(* The calendar of ECMAScript Date (proleptic Gregorian).  Intermediate    *)
(* values are passed as parameters of helper operators, so that each is    *)
(* computed once.                                                          *)

DaysFromEra(era, yoe, doy) ==
    era * 146097 + yoe * 365 + yoe \div 4 - yoe \div 100 + doy - 719468

\* yy: the year counted from March; mp: the month counted from March (0..11)
DaysFromMarch(yy, mp, d) ==
    DaysFromEra(yy \div 400, yy % 400, (153 * mp + 2) \div 5 + d - 1)

\* Day number (days since 1970-01-01) of the civil date y-m-d, m in 1..12
DaysFromCivil(y, m, d) ==
    DaysFromMarch(IF m <= 2 THEN y - 1 ELSE y, IF m > 2 THEN m - 3 ELSE m + 9, d)

CivilFromMp(y, doy, mp) ==
    [y |-> IF mp < 10 THEN y ELSE y + 1,
     m |-> IF mp < 10 THEN mp + 3 ELSE mp - 9,
     d |-> doy - (153 * mp + 2) \div 5 + 1]

CivilFromDoy(y, doy) == CivilFromMp(y, doy, (5 * doy + 2) \div 153)

CivilFromYoe(era, doe, yoe) ==
    CivilFromDoy(yoe + era * 400, doe - (365 * yoe + yoe \div 4 - yoe \div 100))

CivilFromDoe(era, doe) ==
    CivilFromYoe(era, doe,
                 (doe - doe \div 1460 + doe \div 36524 - doe \div 146096) \div 365)

\* Civil date [y, m (1..12), d] of a day number
CivilFromDays(day) ==
    CivilFromDoe((day + 719468) \div 146097, (day + 719468) % 146097)

\* MakeDay(year, month, date) of ECMAScript: month is 0-based and may lie
\* outside 0..11, date may lie outside the month (0 is the last day of the
\* month before)
MakeDay(year, month, date) ==
    DaysFromCivil(year + month \div 12, (month % 12) + 1, 1) + date - 1

\* 0 = Sunday
WeekDay(day) == (day + 4) % 7

-----------------------------------------------------------------------------
(* Time zones                                                              *)

Zones == {"UTC", "America/Toronto"}

\* First Sunday on or after day number d
SundayOnOrAfter(d) == d + ((7 - WeekDay(d)) % 7)

\* Start of daylight saving time in year y (epoch seconds): second Sunday of
\* March, 02:00 EST = 07:00 UTC
DstStart(y) == (SundayOnOrAfter(DaysFromCivil(y, 3, 1)) + 7) * secPerDay + 7 * secPerHour

\* End of daylight saving time in year y: first Sunday of November,
\* 02:00 EDT = 06:00 UTC
DstEnd(y) == SundayOnOrAfter(DaysFromCivil(y, 11, 1)) * secPerDay + 6 * secPerHour

\* The years the model's instants lie in, and their two changes of offset
Years == 2011..2026
DstChanges == [y \in Years |-> [start |-> DstStart(y), end |-> DstEnd(y)]]

OffsetInYear(s, y) ==
    IF DstChanges[y].start <= s /\ s < DstChanges[y].end THEN -4 * secPerHour
    ELSE -5 * secPerHour

\* Offset of local time from UTC, in seconds, at the instant s (epoch seconds)
Offset(s, z) ==
    IF z = "UTC" THEN 0 ELSE OffsetInYear(s, CivilFromDays(s \div secPerDay).y)

\* Local seconds (epoch seconds shifted by the offset) of the instant t
LocalTime(t, z) == t.s + Offset(t.s, z)

\* UTC(t) of ECMAScript: the epoch seconds of a local time.  A local time
\* that occurs twice (clocks set back) is the earlier instant; one that is
\* skipped (clocks set forward) is read with the offset before the change.
UTC(local, z) ==
    IF z = "UTC" THEN local
    ELSE IF Offset(local + 4 * secPerHour, z) = -4 * secPerHour
         THEN local + 4 * secPerHour
         ELSE local + 5 * secPerHour

-----------------------------------------------------------------------------
(* Date objects                                                            *)

\* new Date(y, m, d, h, mi, sec, ms): the instant of a local date and time
NewDate(y, m, d, h, mi, sec, ms, z) ==
    [s  |-> UTC(MakeDay(y, m, d) * secPerDay + h * secPerHour + mi * secPerMinute + sec, z),
     ms |-> ms]

FieldsOfCivil(c, l) ==
    [y |-> c.y, m |-> c.m - 1, d |-> c.d, tod |-> l % secPerDay, day |-> l \div secPerDay]

FieldsOfLocal(l) == FieldsOfCivil(CivilFromDays(l \div secPerDay), l)

\* Local fields of an instant: [y, m (0-based, as getMonth), d, tod (seconds
\* since local midnight), day (local day number)]
Fields(t, z) == FieldsOfLocal(LocalTime(t, z))

getFullYear(t, z) == Fields(t, z).y
getMonth(t, z)    == Fields(t, z).m
getDate(t, z)     == Fields(t, z).d
getHours(t, z)    == Fields(t, z).tod \div secPerHour
getMinutes(t, z)  == (Fields(t, z).tod % secPerHour) \div secPerMinute

\* The instant of the local day number day at tod seconds after midnight
LocalInstant(day, tod, ms, z) == [s |-> UTC(day * secPerDay + tod, z), ms |-> ms]

setDateOf(f, n, ms, z) == LocalInstant(MakeDay(f.y, f.m, n), f.tod, ms, z)
setMonthOf(f, m, ms, z) == LocalInstant(MakeDay(f.y, m, f.d), f.tod, ms, z)
setHoursOf(f, h, ms, z) ==
    LocalInstant(f.day, h * secPerHour + (f.tod % secPerHour), ms, z)
setMinutesOf(f, mi, ms, z) ==
    LocalInstant(f.day, (f.tod \div secPerHour) * secPerHour + mi * secPerMinute
                        + (f.tod % secPerMinute), ms, z)

\* date.setDate(n): the local day of the month becomes n (n may lie outside
\* the month), the local time of day is kept
setDate(t, n, z) == setDateOf(Fields(t, z), n, t.ms, z)

\* date.setMonth(m): the local month becomes m (m may lie outside 0..11)
setMonth(t, m, z) == setMonthOf(Fields(t, z), m, t.ms, z)

\* date.setHours(h): the local hour becomes h (h may lie outside 0..23)
setHours(t, h, z) == setHoursOf(Fields(t, z), h, t.ms, z)

\* date.setMinutes(mi): the local minute becomes mi (mi may lie outside 0..59)
setMinutes(t, mi, z) == setMinutesOf(Fields(t, z), mi, t.ms, z)

\* Mutant of Gt: the comparison of line 67 turned round
GtAsLt(a, b) == a.s < b.s \/ (a.s = b.s /\ a.ms < b.ms)

\* a <= b, a > b on Dates (comparison of getTime())
Leq(a, b) == a.s < b.s \/ (a.s = b.s /\ a.ms <= b.ms)
Gt(a, b)  == ~Leq(a, b)

\* Mutant of FloorGap: Math.round written for Math.floor
FloorGapAsRound(a, b, unit) ==
    (2 * ((a.s - b.s) - (IF a.ms < b.ms THEN 1 ELSE 0))
       + ((2 * ((a.ms - b.ms) % 1000)) \div 1000) + unit) \div (2 * unit)

\* Math.floor((a.getTime() - b.getTime()) / (unit * 1000)), unit in seconds
FloorGap(a, b, unit) ==
    MathFloorDiv((a.s - b.s) - (IF a.ms < b.ms THEN 1 ELSE 0), unit)

-----------------------------------------------------------------------------
(* addMonthsClamped, App.tsx lines 27-42.  A Date that a later statement   *)
(* reads is the argument of a function, so that it is a value by then.     *)

Instant == [s : Int, ms : 0..999]

\* lines 34-38: new Date(next.getFullYear(), next.getMonth() + 1, 0).getDate()
lastDayOfTargetMonth(next, z) ==
    getDate(NewDate(getFullYear(next, z), getMonth(next, z) + 1, 0, 0, 0, 0, 0, z), z)

\* line 40: next.setDate(Math.min(originalDay, lastDayOfTargetMonth))
clampDay[next \in Instant, originalDay \in Int, z \in Zones] ==
    setDate(next, Min(originalDay, lastDayOfTargetMonth(next, z)), z)

\* line 32: next.setMonth(next.getMonth() + monthsToAdd)
shiftMonth[next \in Instant, monthsToAdd \in Int, z \in Zones] ==
    setMonth(next, getMonth(next, z) + monthsToAdd, z)

\* Mutant of addMonthsClamped: the day is set without clamping, so a day the
\* target month lacks wraps into the next month
addMonthsAsWrapping(date, monthsToAdd, z) ==
    setDate(shiftMonth[setDate(date, 1, z), monthsToAdd, z], getDate(date, z), z)

addMonthsClamped(date, monthsToAdd, z) ==
    clampDay[shiftMonth[setDate(date, 1, z), monthsToAdd, z], getDate(date, z), z]

-----------------------------------------------------------------------------
(* calculateBreakdown, App.tsx lines 44-96                                 *)

ZeroBreakdown ==
    [years |-> 0, months |-> 0, days |-> 0, hours |-> 0, minutes |-> 0, seconds |-> 0]

LocalFields == [y : Int, m : Int, d : Int, tod : Int, day : Int]

\* lines 60-62, given the local fields of now and of start
monthsBetween[fn \in LocalFields, fs \in LocalFields] ==
    (fn.y - fs.y) * 12 + (fn.m - fs.m)

totalMonthsOf(start, n, z) == monthsBetween[Fields(n, z), Fields(start, z)]

\* lines 66-70: the conditional decrement, given the anchor of line 64
adjust[start \in Instant, n \in Instant, totalMonths \in Int, anchor \in Instant, z \in Zones] ==
    IF Gt(anchor, n)
    THEN [totalMonths |-> totalMonths, firstAnchor |-> anchor,
          adjustedTotalMonths |-> totalMonths - 1,
          anchor |-> addMonthsClamped(start, totalMonths - 1, z)]
    ELSE [totalMonths |-> totalMonths, firstAnchor |-> anchor,
          adjustedTotalMonths |-> totalMonths, anchor |-> anchor]

\* line 64
anchorStep[start \in Instant, n \in Instant, totalMonths \in Int, z \in Zones] ==
    adjust[start, n, totalMonths, addMonthsClamped(start, totalMonths, z), z]

\* Mutant of monthStep: lines 67-70 left out, the month count is never decremented
monthStepAsNoDecrement(start, n, z) ==
    [totalMonths |-> totalMonthsOf(start, n, z),
     firstAnchor |-> addMonthsClamped(start, totalMonthsOf(start, n, z), z),
     adjustedTotalMonths |-> totalMonthsOf(start, n, z),
     anchor |-> addMonthsClamped(start, totalMonthsOf(start, n, z), z)]

\* Mutant of monthStep: the month count is decremented unconditionally
monthStepAsAlwaysDecrement(start, n, z) ==
    [totalMonths |-> totalMonthsOf(start, n, z),
     firstAnchor |-> addMonthsClamped(start, totalMonthsOf(start, n, z), z),
     adjustedTotalMonths |-> totalMonthsOf(start, n, z) - 1,
     anchor |-> addMonthsClamped(start, totalMonthsOf(start, n, z) - 1, z)]

\* lines 59-70: the locals of calculateBreakdown once the month count is
\* settled.  firstAnchor is the anchor of line 64, anchor the one after the
\* conditional decrement.
monthStep(start, n, z) == anchorStep[start, n, totalMonthsOf(start, n, z), z]

\* lines 81-82, 85-86, 89-90: the anchor advanced by the unit just peeled off
afterDays(n, anchor, z) ==
    setDate(anchor, getDate(anchor, z) + FloorGap(n, anchor, secPerDay), z)
afterHours(n, anchor, z) ==
    setHours(anchor, getHours(anchor, z) + FloorGap(n, anchor, secPerHour), z)
afterMinutes(n, anchor, z) ==
    setMinutes(anchor, getMinutes(anchor, z) + FloorGap(n, anchor, secPerMinute), z)

\* lines 89-95, given the anchor advanced by the days and the hours
peelMinutes[n \in Instant, adjusted \in Int, days \in Int, hours \in Int, anchor \in Instant, z \in Zones] ==
    [years   |-> MathFloorDiv(adjusted, 12),
     months  |-> JsRem(adjusted, 12),
     days    |-> days,
     hours   |-> hours,
     minutes |-> FloorGap(n, anchor, secPerMinute),
     seconds |-> FloorGap(n, afterMinutes(n, anchor, z), 1)]

\* lines 85-87, given the anchor advanced by the days
peelHours[n \in Instant, adjusted \in Int, days \in Int, anchor \in Instant, z \in Zones] ==
    peelMinutes[n, adjusted, days, FloorGap(n, anchor, secPerHour),
                afterHours(n, anchor, z), z]

\* lines 72-95: the fields peeled off the gap between now and the anchor
peel[n \in Instant, adjusted \in Int, anchor \in Instant, z \in Zones] ==
    peelHours[n, adjusted, FloorGap(n, anchor, secPerDay), afterDays(n, anchor, z), z]

NoInstant == [s |-> 0, ms |-> 0]
NoLocals == [totalMonths |-> 0, firstAnchor |-> NoInstant,
             adjustedTotalMonths |-> 0, anchor |-> NoInstant]
Locals == [totalMonths : Int, firstAnchor : Instant, adjustedTotalMonths : Int,
           anchor : Instant]

\* lines 72-95, given the locals after line 70
peelLocals[n \in Instant, l \in Locals, z \in Zones] ==
    [locals |-> l, returned |-> peel[n, l.adjustedTotalMonths, l.anchor, z]]

\* Mutant of callBreakdown: the early return of lines 48-57 left out
callBreakdownAsNoEarlyReturn(start, n, z) == peelLocals[n, monthStep(start, n, z), z]

\* One call of calculateBreakdown: the value returned and, for the properties
\* of lines 60-70, the locals after line 70 (NoLocals: returned at line 49)
callBreakdown(start, n, z) ==
    IF Leq(n, start) THEN [locals |-> NoLocals, returned |-> ZeroBreakdown]
    ELSE peelLocals[n, monthStep(start, n, z), z]

calculateBreakdown(start, n, z) == callBreakdown(start, n, z).returned

-----------------------------------------------------------------------------
(* Durations and calculateOverrunPercent, App.tsx lines 13-16 and 98-111   *)

\* a.getTime() - b.getTime(): a duration [s, ms] standing for s*1000 + ms
\* milliseconds, 0 <= ms < 1000
Minus(a, b) ==
    IF a.ms >= b.ms THEN [s |-> a.s - b.s, ms |-> a.ms - b.ms]
    ELSE [s |-> a.s - b.s - 1, ms |-> a.ms - b.ms + 1000]

\* d <= 0
NotPositive(d) == d.s < 0 \/ (d.s = 0 /\ d.ms = 0)

BREAK_GROUND_DATE == [s |-> DaysFromCivil(2011, 11, 9) * secPerDay + 5 * secPerHour, ms |-> 0]
PROJECTED_OPEN_DATE == [s |-> DaysFromCivil(2020, 12, 31) * secPerDay + 5 * secPerHour, ms |-> 0]

\* lines 15-16
PLANNED_DURATION_MS(projected, ground) == Minus(projected, ground)

\* A returned number: [num, den] stands for (num / den) * 100, num and den
\* durations; the literal 0 of lines 100 and 107 is 0 / 1 ms
ZeroPercent == [num |-> [s |-> 0, ms |-> 0], den |-> [s |-> 0, ms |-> 1]]

\* Mutant of calculateOverrunPercent: the guard of lines 99-101 left out
calculateOverrunPercentAsUnguarded(n, ground, planned) ==
    IF NotPositive(Minus(Minus(n, ground), planned)) THEN ZeroPercent
    ELSE [num |-> Minus(Minus(n, ground), planned), den |-> planned]

\* The constants the function reads are parameters here: ground is
\* BREAK_GROUND_DATE, planned is PLANNED_DURATION_MS
calculateOverrunPercent(n, ground, planned) ==
    IF NotPositive(planned) THEN ZeroPercent
    ELSE LET totalElapsed == Minus(n, ground)
             overrunMs    == Minus(totalElapsed, planned)
         IN  IF NotPositive(overrunMs) THEN ZeroPercent
             ELSE [num |-> overrunMs, den |-> planned]

-----------------------------------------------------------------------------
(* Inputs of the calculator runs                                           *)

\* The now instants are a grid: NumDays consecutive UTC days from
\* GridFirstDay, each at the times of day of TimesOfDay (UTC, ascending).
\* The times are midnight UTC, local midnight of America/Toronto in winter
\* (05:00) and the half hour before it (04:30, half past midnight in
\* summer), a time just after the clocks are set forward (07:10, 03:10 local
\* on that day), and two instants that are not whole seconds.
NumDays == 430
GridFirstDay == DaysFromCivil(2020, 1, 30)

TimesOfDay ==
    << [s |-> 0, ms |-> 0],
       [s |-> 4 * 3600 + 1800, ms |-> 0],
       [s |-> 5 * 3600, ms |-> 0],
       [s |-> 7 * 3600 + 600, ms |-> 0],
       [s |-> 12 * 3600, ms |-> 250],
       [s |-> 23 * 3600 + 59 * 60 + 59, ms |-> 999] >>

GridSize == NumDays * Len(TimesOfDay)

GridInstant(i) ==
    LET tod == TimesOfDay[(i % Len(TimesOfDay)) + 1]
    IN  [s  |-> (GridFirstDay + i \div Len(TimesOfDay)) * secPerDay + tod.s,
         ms |-> tod.ms]

GridIndex(t) ==
    LET day == t.s \div secPerDay - GridFirstDay
        k   == CHOOSE j \in 1..Len(TimesOfDay) :
                   TimesOfDay[j] = [s |-> t.s % secPerDay, ms |-> t.ms]
    IN  day * Len(TimesOfDay) + (k - 1)

\* The start instants given as local dates and times of the host's zone:
\* [y, m (0-based), d, h, mi, sec, ms]
StartFields ==
    { <<2020, 0, 31, 0, 0, 0, 0>>,     \* Jan 31 of a leap year
      <<2021, 0, 31, 0, 0, 0, 0>>,     \* Jan 31 of a common year
      <<2020, 0, 15, 12, 0, 0, 500>>,  \* a day every month has
      <<2020, 1, 8, 2, 30, 0, 0>>,     \* 02:30, skipped on 2020-03-08 in Toronto
      <<2020, 2, 8, 0, 0, 0, 0>> }     \* the day the clocks are set forward

\* and the program's two reference dates
StartInstants(z) ==
    { NewDate(f[1], f[2], f[3], f[4], f[5], f[6], f[7], z) : f \in StartFields }
    \cup {BREAK_GROUND_DATE, PROJECTED_OPEN_DATE}

-----------------------------------------------------------------------------
(* Calculator runs: calculateBreakdown called over the grid                *)

CalcIdle ==
    /\ startDate = NoInstant /\ now = NoInstant /\ locals = NoLocals
    /\ breakdown = ZeroBreakdown /\ prevNow = NoInstant /\ prevBreakdown = ZeroBreakdown

OverrunIdle ==
    /\ breakGround = NoInstant /\ projectedOpen = NoInstant /\ overrun = ZeroPercent

AppIdle ==
    /\ phase = "initial" /\ clock = NoInstant /\ intervals = {}
    /\ intervalId = 0 /\ ticks = 0
    /\ timerState = [breakGround |-> ZeroBreakdown, projectedOpen |-> ZeroBreakdown,
                     overrunPercent |-> ZeroPercent]

InitCalc ==
    /\ zone \in Zones
    /\ startDate \in StartInstants(zone)
    /\ now = NoInstant
    /\ locals = NoLocals
    /\ breakdown = ZeroBreakdown
    /\ prevNow = NoInstant
    /\ prevBreakdown = ZeroBreakdown
    /\ pc = "input"
    /\ OverrunIdle
    /\ AppIdle

\* The call calculateBreakdown(startDate, n)
Call(n) ==
    /\ now' = n
    /\ \E r \in {callBreakdown(startDate, n, zone)} :
         /\ locals' = r.locals
         /\ breakdown' = r.returned
    /\ UNCHANGED <<zone, startDate, overrunVars, appVars>>

\* The first call, with an instant of the grid as now
Calculate ==
    /\ pc = "input"
    /\ pc' = "done"
    /\ \E i \in 0..(GridSize - 1) : Call(GridInstant(i))
    /\ UNCHANGED <<prevNow, prevBreakdown>>

\* The call after it, with the next instant of the grid as now
Recalculate ==
    /\ pc = "done"
    /\ prevNow = NoInstant
    /\ GridIndex(now) + 1 < GridSize
    /\ Call(GridInstant(GridIndex(now) + 1))
    /\ prevNow' = now
    /\ prevBreakdown' = breakdown
    /\ UNCHANGED pc

NextCalc == Calculate \/ Recalculate

SpecCalc == InitCalc /\ [][NextCalc]_vars

-----------------------------------------------------------------------------
(* Overrun runs: calculateOverrunPercent applied to small instants         *)

MaxOverrunSec == 8

\* Instants of whole and half seconds up to n seconds after the epoch
SmallInstants(n) == { [s |-> k, ms |-> m] : k \in 0..n, m \in {0, 500} }

InitOverrun ==
    /\ zone = "UTC"
    /\ breakGround \in { t \in SmallInstants(2) : t.s >= 1 }
    /\ projectedOpen \in SmallInstants(4)
    /\ now \in SmallInstants(MaxOverrunSec)
    /\ overrun = ZeroPercent
    /\ pc = "input"
    /\ startDate = NoInstant /\ locals = NoLocals /\ breakdown = ZeroBreakdown
    /\ prevNow = NoInstant /\ prevBreakdown = ZeroBreakdown
    /\ AppIdle

CalculateOverrun ==
    /\ pc = "input"
    /\ overrun' = calculateOverrunPercent(now, breakGround,
                      PLANNED_DURATION_MS(projectedOpen, breakGround))
    /\ pc' = "done"
    /\ UNCHANGED <<zone, breakGround, projectedOpen, calcVars, appVars>>

NextOverrun == CalculateOverrun

SpecOverrun == InitOverrun /\ [][NextOverrun]_vars

-----------------------------------------------------------------------------
(* The App component, App.tsx lines 166-189                                *)

MaxTicks == 5

\* The wall clock when the component is first rendered: 2025-03-09
\* 06:59:58.500 UTC, a second and a half before the clocks of
\* America/Toronto are set forward
FirstClock ==
    [s |-> DaysFromCivil(2025, 3, 9) * secPerDay + 6 * secPerHour + 59 * secPerMinute + 58,
     ms |-> 500]

\* Time between two runs of the interval callback: the 1000 ms asked for, a
\* late run, and a run after the page was suspended for hours
TickDelays == { [s |-> 1, ms |-> 0], [s |-> 1, ms |-> 250], [s |-> 20 * 3600, ms |-> 0] }

Plus(t, d) ==
    IF t.ms + d.ms >= 1000 THEN [s |-> t.s + d.s + 1, ms |-> t.ms + d.ms - 1000]
    ELSE [s |-> t.s + d.s, ms |-> t.ms + d.ms]

\* lines 168-173 and 178-183: the state computed from one reading of the clock
stateAt(n, z) ==
    [breakGround    |-> calculateBreakdown(BREAK_GROUND_DATE, n, z),
     projectedOpen  |-> calculateBreakdown(PROJECTED_OPEN_DATE, n, z),
     overrunPercent |-> calculateOverrunPercent(n, BREAK_GROUND_DATE,
                            PLANNED_DURATION_MS(PROJECTED_OPEN_DATE, BREAK_GROUND_DATE))]

Init ==
    /\ zone \in Zones
    /\ phase = "initial"
    /\ clock = FirstClock
    /\ intervals = {}
    /\ intervalId = 0
    /\ ticks = 0
    /\ timerState = [breakGround |-> ZeroBreakdown, projectedOpen |-> ZeroBreakdown,
                     overrunPercent |-> ZeroPercent]
    /\ pc = "input"
    /\ CalcIdle
    /\ OverrunIdle

\* lines 167-174: the first render runs the initializer of useState
Render ==
    /\ phase = "initial"
    /\ phase' = "rendered"
    /\ timerState' = stateAt(clock, zone)
    /\ UNCHANGED <<zone, pc, calcVars, overrunVars, clock, intervals, intervalId, ticks>>

\* window.setInterval: a fresh id, live from now on
setInterval(live) == CHOOSE id \in 1..(Cardinality(live) + 1) : id \notin live

\* Mutant of clearInterval: the interval is left running
clearIntervalAsNoop(live, id) == live

\* window.clearInterval(id)
clearInterval(live, id) == live \ {id}

\* lines 176-185: the effect runs once after the first render
Effect ==
    /\ phase = "rendered"
    /\ phase' = "mounted"
    /\ intervalId' = setInterval(intervals)
    /\ intervals' = intervals \cup {intervalId'}
    /\ UNCHANGED <<zone, pc, calcVars, overrunVars, clock, timerState, ticks>>

\* lines 177-184: the callback of a live interval runs; setTimerState changes
\* the state of a mounted component only
Tick ==
    /\ intervals # {}
    /\ ticks < MaxTicks
    /\ \E d \in TickDelays : clock' = Plus(clock, d)
    /\ ticks' = ticks + 1
    /\ timerState' = IF phase = "mounted" THEN stateAt(clock', zone) ELSE timerState
    /\ UNCHANGED <<zone, pc, calcVars, overrunVars, phase, intervals, intervalId>>

\* lines 186-188: the cleanup of the effect runs when the component is torn down
Unmount ==
    /\ phase = "mounted"
    /\ phase' = "unmounted"
    /\ intervals' = clearInterval(intervals, intervalId)
    /\ UNCHANGED <<zone, pc, calcVars, overrunVars, clock, intervalId, timerState, ticks>>

Next == Render \/ Effect \/ Tick \/ Unmount

Spec == Init /\ [][Next]_vars


-----------------------------------------------------------------------------
(* Properties                                                              *)

Called == pc = "done"
After == Called /\ ~Leq(now, startDate)       \* a call with now > start

\* start advanced by years*12 + months calendar months with day clamping
AnchorOf(b) == addMonthsClamped(startDate, b.years * 12 + b.months, zone)

\* number of days of the local calendar month the instant t lies in
MonthLength(t) ==
    MakeDay(getFullYear(t, zone), getMonth(t, zone) + 1, 1)
    - MakeDay(getFullYear(t, zone), getMonth(t, zone), 1)

\* number of calendar days from the anchor to the next monthly anchor
DaysToNextAnchor(b) ==
    Fields(addMonthsClamped(startDate, b.years * 12 + b.months + 1, zone), zone).day
    - Fields(AnchorOf(b), zone).day

\* C1 as stated: for now > start, days lies between 0 and the number of days
\* of the anchor's calendar month minus 1.
C1_DaysWithinAnchorMonth ==
    After => /\ breakdown.days >= 0
             /\ breakdown.days <= MonthLength(AnchorOf(breakdown)) - 1

\* C1 amended: for now > start, days lies between 0 and the number of
\* calendar days from the anchor to the next monthly anchor (start advanced
\* by one more month), a number that is at most 31; in a zone without
\* daylight saving days is strictly below that number.
C1_DaysWithinAnchorStep ==
    After => /\ breakdown.days >= 0
             /\ breakdown.days <= DaysToNextAnchor(breakdown)
             /\ DaysToNextAnchor(breakdown) <= 31
             /\ zone = "UTC" => breakdown.days < DaysToNextAnchor(breakdown)

\* C1 witness: a call whose days exceed the anchor month's length minus 1
C1_Witness ==
    /\ After
    /\ breakdown.days > MonthLength(AnchorOf(breakdown)) - 1
    /\ zone = "UTC"

\* C2: every field of the breakdown is an integer >= 0, months in 0..11,
\* hours in 0..23, minutes and seconds in 0..59.
C2_FieldsInRange ==
    Called => /\ breakdown.years >= 0
              /\ breakdown.months \in 0..11
              /\ breakdown.days >= 0
              /\ breakdown.hours \in 0..23
              /\ breakdown.minutes \in 0..59
              /\ breakdown.seconds \in 0..59

Breakdown == [years : Int, months : Int, days : Int, hours : Int, minutes : Int,
              seconds : Int]

AdvanceMinutes[a \in Instant, b \in Breakdown, z \in Zones] ==
    Plus(setMinutes(a, getMinutes(a, z) + b.minutes, z), [s |-> b.seconds, ms |-> 0])
AdvanceHours[a \in Instant, b \in Breakdown, z \in Zones] ==
    AdvanceMinutes[setHours(a, getHours(a, z) + b.hours, z), b, z]
AdvanceDays[a \in Instant, b \in Breakdown, z \in Zones] ==
    AdvanceHours[setDate(a, getDate(a, z) + b.days, z), b, z]

\* start advanced by the months of b with clamping, then by its days, hours
\* and minutes on the calendar, then by its seconds
Reconstruct(b) == AdvanceDays[AnchorOf(b), b, zone]

C4_ZeroBeforeStart ==
    (Called /\ Leq(now, startDate)) => breakdown = ZeroBreakdown

\* C4 witness: a call with now = start
C4_Witness == Called /\ now = startDate /\ breakdown = ZeroBreakdown

Jan31(y) == NewDate(y, 0, 31, 0, 0, 0, 0, zone)
Mar1(y) == NewDate(y, 2, 1, 0, 0, 0, 0, zone)

\* C5: start = January 31 00:00:00 and now = March 1 00:00:00 of the same
\* year give years 0, months 1, days 1, hours = minutes = seconds = 0, in the
\* leap year 2020 and in the common year 2021.
C5_Jan31ToMar1 ==
    \A y \in {2020, 2021} :
        (Called /\ startDate = Jan31(y) /\ now = Mar1(y)) =>
            breakdown = [years |-> 0, months |-> 1, days |-> 1, hours |-> 0,
                         minutes |-> 0, seconds |-> 0]

\* C5 witness: the call of the leap year
C5_Witness ==
    /\ Called /\ startDate = Jan31(2020) /\ now = Mar1(2020)
    /\ breakdown.months = 1 /\ breakdown.days = 1

ToMs(d) == d.s * 1000 + d.ms
Elapsed == ToMs(now) - ToMs(breakGround)
Planned == ToMs(projectedOpen) - ToMs(breakGround)

\* C6: calculateOverrunPercent returns 0 when planned <= 0, returns 0 when
\* elapsed <= planned, and otherwise (elapsed - planned) / planned * 100 (50
\* when elapsed = 1.5 * planned); the result is never negative.  The value
\* returned is (num / den) * 100.
C6_Overrun ==
    Called =>
        /\ ToMs(overrun.den) > 0
        /\ ToMs(overrun.num) >= 0
        /\ Planned <= 0 => ToMs(overrun.num) = 0
        /\ Elapsed <= Planned => ToMs(overrun.num) = 0
        /\ (Planned > 0 /\ Elapsed > Planned) =>
               ToMs(overrun.num) * Planned = (Elapsed - Planned) * ToMs(overrun.den)
        /\ (Planned > 0 /\ 2 * Elapsed = 3 * Planned) =>
               ToMs(overrun.num) * 100 = 50 * ToMs(overrun.den)

\* C6 witness: a call with elapsed = 1.5 * planned that returned 50
C6_Witness ==
    /\ Called /\ Planned > 0 /\ 2 * Elapsed = 3 * Planned
    /\ ToMs(overrun.num) * 100 = 50 * ToMs(overrun.den)

\* C7: while the component is mounted exactly one interval is live; the
\* teardown cancels it, and after the teardown no callback runs and
\* timerState never changes again.
C7_IntervalCancelled ==
    /\ [](phase = "mounted" => (Cardinality(intervals) = 1 /\ intervals = {intervalId}))
    /\ [](phase = "unmounted" => intervals = {})
    /\ [][phase = "unmounted" => (ticks' = ticks /\ timerState' = timerState)]_vars

\* C7 witness: the component is torn down after some callbacks ran and
\* before the bound on callbacks is reached
C7_Witness ==
    /\ phase = "unmounted" /\ intervals = {} /\ ticks > 0 /\ ticks < MaxTicks

\* C8: for now > start, after the conditional decrement the month count is
\* >= 0 and the anchor, start advanced by that count with day clamping, is
\* <= now: one decrement is enough.
C8_AnchorNotAfterNow ==
    After => /\ locals.adjustedTotalMonths >= 0
             /\ locals.adjustedTotalMonths \in {locals.totalMonths, locals.totalMonths - 1}
             /\ locals.anchor = addMonthsClamped(startDate, locals.adjustedTotalMonths, zone)
             /\ Leq(locals.anchor, now)

\* C8 witness: a call that decremented the month count
C8_Witness ==
    /\ After
    /\ locals.adjustedTotalMonths = locals.totalMonths - 1
    /\ Leq(locals.anchor, now)

Decremented == locals.adjustedTotalMonths # locals.totalMonths

\* the day of the first candidate anchor was clamped to the last day of its
\* month: the start's day of the month does not exist there
Clamped == getDate(startDate, zone) > MonthLength(locals.firstAnchor)

\* C9 as stated: the month count is decremented only when the day of the
\* first candidate anchor was clamped.
C9_DecrementOnlyWhenClamped == (After /\ Decremented) => Clamped

\* C9 amended: the month count is decremented exactly when the first
\* candidate anchor is later than now, whether or not its day was clamped;
\* the candidate then lies in the calendar month of now.
C9_DecrementWhenAnchorAfterNow ==
    After => /\ Decremented <=> ~Leq(locals.firstAnchor, now)
             /\ locals.firstAnchor = addMonthsClamped(startDate, locals.totalMonths, zone)
             /\ Decremented =>
                  /\ getFullYear(locals.firstAnchor, zone) = getFullYear(now, zone)
                  /\ getMonth(locals.firstAnchor, zone) = getMonth(now, zone)

\* C9 witness: a decrement without any clamping
C9_Witness == After /\ Decremented /\ ~Clamped

Tuple(b) == <<b.years, b.months, b.days, b.hours, b.minutes, b.seconds>>

\* a <= b in the lexicographic order of sequences of the same length
LexLeq(a, b) ==
    \/ a = b
    \/ \E i \in 1..Len(a) : a[i] < b[i] /\ \A j \in 1..(i - 1) : a[j] = b[j]

\* C10: for a fixed start and now1 <= now2, the tuple (years, months, days,
\* hours, minutes, seconds) returned for now1 is lexicographically <= the
\* tuple returned for now2.
C10_NeverBackwards ==
    (Called /\ prevNow # NoInstant /\ Leq(prevNow, now)) =>
        LexLeq(Tuple(prevBreakdown), Tuple(breakdown))

\* C10 witness: two calls in a row across a month boundary of the anchor:
\* the months grow and the days fall
C10_Witness ==
    /\ Called /\ prevNow # NoInstant /\ Leq(prevNow, now)
    /\ breakdown.months > prevBreakdown.months
    /\ breakdown.days < prevBreakdown.days


====
